---- MODULE Spec2Model ----
(***************************************************************************)
(* A model of tagifai/main.py: the train_model command (a tracked run      *)
(* whose five artifact files are staged in a temporary directory and then  *)
(* logged to the run's artifact location), load_artifacts and the commands *)
(* built on it, behavioral_reevaluation, diff, and the optimize command    *)
(* (an optuna study with a MedianPruner whose best trial is merged into    *)
(* the params file).                                                       *)
(***************************************************************************)
EXTENDS Integers, Sequences, FiniteSets, TLC

VARIABLES
    pc,            \* train_model: position of the command
    run,           \* tracking store: the run's record (status, metrics, params)
    artifacts,     \* train_model: what train.train returned
    tmpdir,        \* train_model: files of the TemporaryDirectory dp
    store,         \* files at the run's artifact location
    load_result,   \* outcome of the last load_artifacts call of a reader
    reeval_result, \* outcome of the behavioral_reevaluation command
    diff_result,   \* outcome of the diff command
    pc_opt,        \* optimize: position of the command
    num_trials,    \* optimize: the num_trials argument
    base_params,   \* optimize: the params loaded from params_fp
    trials,        \* optimize: the study's trials, in submission order
    selected,      \* optimize: study.best_trial as read after the study
    params_file,   \* optimize: content of params_fp
    opt_error      \* optimize: the exception the command ended with

train_vars == <<pc, run, artifacts, tmpdir, store, load_result, reeval_result, diff_result>>
search_vars == <<pc_opt, num_trials, base_params, trials, selected, params_file, opt_error>>
vars == <<pc, run, artifacts, tmpdir, store, load_result, reeval_result, diff_result,
          pc_opt, num_trials, base_params, trials, selected, params_file, opt_error>>

\* The empty mapping (an empty dict, an empty directory).
EmptyMap == [k \in {} |-> 0]

(***************************************************************************)
(* Serialisation helpers.  utils.save_dict / utils.load_dict write and     *)
(* read JSON; the label encoder and the tokenizer save and load their own  *)
(* self-describing JSON state; torch.save / torch.load write and read a    *)
(* binary blob.  A file is a record of its format and its payload.         *)
(***************************************************************************)
save_dict(d) == [fmt |-> "json", kind |-> "dict", body |-> d]

save_state(kind, state) == [fmt |-> "json", kind |-> kind, body |-> state]

torch_save(state_dict) == [fmt |-> "pt", kind |-> "state_dict", body |-> state_dict]

\* A file whose bytes no loader can parse.
Garbage == [fmt |-> "garbage", kind |-> "garbage", body |-> EmptyMap]

FileNames == {"params.json", "performance.json", "label_encoder.json",
              "tokenizer.json", "model.pt"}

\* The order in which train_model writes the five files into dp.
StageOrder == <<"params.json", "performance.json", "label_encoder.json",
                "tokenizer.json", "model.pt">>

\* A train_model that saves the label encoder into tokenizer.json and the
\* tokenizer into label_encoder.json.
StagedContentSwapped(b, f) ==
    CASE f = "params.json" -> save_dict(b.params)
      [] f = "performance.json" -> save_dict(b.performance)
      [] f = "label_encoder.json" -> save_state("tokenizer", b.tokenizer)
      [] f = "tokenizer.json" -> save_state("label_encoder", b.label_encoder)
      [] f = "model.pt" -> torch_save(b.model)

\* What train_model writes under each file name.
StagedContent(b, f) ==
    CASE f = "params.json" -> save_dict(b.params)
      [] f = "performance.json" -> save_dict(b.performance)
      [] f = "label_encoder.json" -> save_state("label_encoder", b.label_encoder)
      [] f = "tokenizer.json" -> save_state("tokenizer", b.tokenizer)
      [] f = "model.pt" -> torch_save(b.model)

\* The bundles train.train can return.
Bundles ==
    { [params |-> ("lr" :> 1 @@ "num_epochs" :> 6),
       performance |-> [overall |-> [precision |-> 7, recall |-> 6, f1 |-> 6],
                        behavioral |-> [score |-> 9],
                        slices |-> [overall |-> [f1 |-> 5]]],
       label_encoder |-> ("cv" :> 0 @@ "nlp" :> 1),
       tokenizer |-> ("a" :> 1 @@ "b" :> 2 @@ "c" :> 3),
       model |-> [vocab_size |-> 3, num_classes |-> 2, weights |-> 11],
       loss |-> 4],
      [params |-> ("lr" :> 2 @@ "num_epochs" :> 6 @@ "threshold" :> 5),
       performance |-> [overall |-> [precision |-> 8, recall |-> 8, f1 |-> 8],
                        behavioral |-> [score |-> 3],
                        slices |-> [overall |-> [f1 |-> 7]]],
       label_encoder |-> ("cv" :> 0 @@ "nlp" :> 1 @@ "rl" :> 2),
       tokenizer |-> ("a" :> 1 @@ "b" :> 2),
       model |-> [vocab_size |-> 2, num_classes |-> 3, weights |-> 22],
       loss |-> 2] }

NoBundle == [params |-> EmptyMap,
             performance |-> [overall |-> [precision |-> 0, recall |-> 0, f1 |-> 0],
                              behavioral |-> [score |-> 0],
                              slices |-> [overall |-> [f1 |-> 0]]],
             label_encoder |-> EmptyMap,
             tokenizer |-> EmptyMap,
             model |-> [vocab_size |-> 0, num_classes |-> 0, weights |-> 0],
             loss |-> 0]

NoMetrics == [precision |-> 0, recall |-> 0, f1 |-> 0, best_val_loss |-> 0,
              behavioral_score |-> 0, slices_f1 |-> 0]

\* The metrics train_model logs.
metrics(a) == [precision |-> a.performance.overall.precision,
               recall |-> a.performance.overall.recall,
               f1 |-> a.performance.overall.f1,
               best_val_loss |-> a.loss,
               behavioral_score |-> a.performance.behavioral.score,
               slices_f1 |-> a.performance.slices.overall.f1]

(***************************************************************************)
(* load_artifacts                                                          *)
(***************************************************************************)
\* The order in which load_artifacts reads the five files.
LoadOrder == <<"params.json", "label_encoder.json", "tokenizer.json",
               "model.pt", "performance.json">>

\* The kind of payload each loader of load_artifacts expects in its file.
ExpectedKind(f) ==
    CASE f = "params.json" -> "dict"
      [] f = "performance.json" -> "dict"
      [] f = "label_encoder.json" -> "label_encoder"
      [] f = "tokenizer.json" -> "tokenizer"
      [] f = "model.pt" -> "state_dict"

Missing(st, f) == f \notin DOMAIN st

Malformed(st, f) == f \in DOMAIN st /\ st[f].kind # ExpectedKind(f)

\* The exception utils.load_dict, MultiLabelLabelEncoder.load and
\* Tokenizer.load raise on a missing or malformed file.
codec_error(st, f) == "ArtifactCorruptionError"

\* The exception torch.load raises: the error of open() on a missing file,
\* the error of unpickling on a malformed one.
torch_load_error(st, f) ==
    IF Missing(st, f) THEN "FileNotFoundError" ELSE "UnpicklingError"

\* The exception the loader of file f raises; load_artifacts catches none.
LoaderError(st, f) ==
    IF f = "model.pt" THEN torch_load_error(st, f) ELSE codec_error(st, f)

LoadError(err, f) == [status |-> "error", err |-> err, component |-> f, bundle |-> NoBundle]

NoResult == [status |-> "none", err |-> "", component |-> "", bundle |-> NoBundle]

\* The first file, in reading order, that is missing or malformed (0: none).
FirstBad(st) ==
    IF \E i \in 1..Len(LoadOrder) : Missing(st, LoadOrder[i]) \/ Malformed(st, LoadOrder[i])
    THEN CHOOSE i \in 1..Len(LoadOrder) :
            /\ Missing(st, LoadOrder[i]) \/ Malformed(st, LoadOrder[i])
            /\ \A j \in 1..(i - 1) : ~(Missing(st, LoadOrder[j]) \/ Malformed(st, LoadOrder[j]))
    ELSE 0

\* models.initialize_model sized by len(tokenizer) and len(label_encoder),
\* followed by load_state_dict, which raises on a shape mismatch.
ModelFits(tokenizer, label_encoder, state_dict) ==
    /\ state_dict.vocab_size = Cardinality(DOMAIN tokenizer)
    /\ state_dict.num_classes = Cardinality(DOMAIN label_encoder)

\* A load_artifacts that skips a file it cannot read and returns the rest.
load_artifacts_partial(r, st) ==
    IF r.status = "NONE"
    THEN LoadError("MlflowException", "run")
    ELSE LET ok(f) == ~Missing(st, f) /\ ~Malformed(st, f)
         IN  [status |-> "ok", err |-> "", component |-> "",
              bundle |-> [params |-> IF ok("params.json") THEN st["params.json"].body
                                     ELSE NoBundle.params,
                          performance |-> IF ok("performance.json")
                                          THEN st["performance.json"].body
                                          ELSE NoBundle.performance,
                          label_encoder |-> IF ok("label_encoder.json")
                                            THEN st["label_encoder.json"].body
                                            ELSE NoBundle.label_encoder,
                          tokenizer |-> IF ok("tokenizer.json") THEN st["tokenizer.json"].body
                                        ELSE NoBundle.tokenizer,
                          model |-> IF ok("model.pt") THEN st["model.pt"].body
                                    ELSE NoBundle.model,
                          loss |-> 0]]

\* load_artifacts(run_id): the run is resolved, the five files are read in
\* order, the model is initialized and loaded; the first exception leaves
\* the function.
load_artifacts(r, st) ==
    IF r.status = "NONE"
    THEN LoadError("MlflowException", "run")
    ELSE IF FirstBad(st) # 0
    THEN LoadError(LoaderError(st, LoadOrder[FirstBad(st)]), LoadOrder[FirstBad(st)])
    ELSE IF ~ModelFits(st["tokenizer.json"].body, st["label_encoder.json"].body,
                       st["model.pt"].body)
    THEN LoadError("RuntimeError", "model.pt")
    ELSE [status |-> "ok", err |-> "", component |-> "",
          bundle |-> [params |-> st["params.json"].body,
                      performance |-> st["performance.json"].body,
                      label_encoder |-> st["label_encoder.json"].body,
                      tokenizer |-> st["tokenizer.json"].body,
                      model |-> st["model.pt"].body,
                      loss |-> 0]]

(***************************************************************************)
(* train_model                                                             *)
(***************************************************************************)
NoRun == [status |-> "NONE", metrics |-> NoMetrics, params |-> EmptyMap]

InitTrain ==
    /\ pc = "idle"
    /\ run = NoRun
    /\ artifacts = NoBundle
    /\ tmpdir = EmptyMap
    /\ store = EmptyMap
    /\ load_result = NoResult
    /\ reeval_result = [status |-> "none", err |-> ""]
    /\ diff_result = [status |-> "none", err |-> "", tag_a |-> "", tag_b |-> ""]

\* mlflow.start_run: the run exists in the tracking store, with its artifact
\* location, from here on.
StartRun ==
    /\ pc = "idle"
    /\ run' = [run EXCEPT !.status = "RUNNING"]
    /\ pc' = "started"
    /\ UNCHANGED <<artifacts, tmpdir, store, load_result, reeval_result, diff_result>>
    /\ UNCHANGED search_vars

\* artifacts = train.train(params)
Train ==
    /\ pc = "started"
    /\ \E b \in Bundles : artifacts' = b
    /\ pc' = "trained"
    /\ UNCHANGED <<run, tmpdir, store, load_result, reeval_result, diff_result>>
    /\ UNCHANGED search_vars

\* train.train raises: the exception leaves the start_run block, which ends
\* the run as FAILED.
TrainFails ==
    /\ pc = "started"
    /\ run' = [run EXCEPT !.status = "FAILED"]
    /\ pc' = "failed_train"
    /\ UNCHANGED <<artifacts, tmpdir, store, load_result, reeval_result, diff_result>>
    /\ UNCHANGED search_vars

\* mlflow.log_metrics(metrics), then the TemporaryDirectory is created.
LogMetrics ==
    /\ pc = "trained"
    /\ run' = [run EXCEPT !.metrics = metrics(artifacts)]
    /\ tmpdir' = EmptyMap
    /\ pc' = "staging"
    /\ UNCHANGED <<artifacts, store, load_result, reeval_result, diff_result>>
    /\ UNCHANGED search_vars

Staged == Cardinality(DOMAIN tmpdir)

\* The next of the five writes into dp.
StageWrite ==
    /\ pc = "staging"
    /\ Staged < Len(StageOrder)
    /\ LET f == StageOrder[Staged + 1]
       IN  tmpdir' = (f :> StagedContent(artifacts, f)) @@ tmpdir
    /\ pc' = IF Staged + 1 = Len(StageOrder) THEN "uploading" ELSE "staging"
    /\ UNCHANGED <<run, artifacts, store, load_result, reeval_result, diff_result>>
    /\ UNCHANGED search_vars

\* A train_model that logs what it has staged even when a write raised.
StageWriteFailsPublishes ==
    /\ pc = "staging"
    /\ Staged < Len(StageOrder)
    /\ store' = tmpdir
    /\ tmpdir' = EmptyMap
    /\ run' = [run EXCEPT !.status = "FAILED"]
    /\ pc' = "failed_staging"
    /\ UNCHANGED <<artifacts, load_result, reeval_result, diff_result>>
    /\ UNCHANGED search_vars

\* The next write into dp raises: the TemporaryDirectory is removed, and the
\* exception leaves the start_run block, which ends the run as FAILED.
StageWriteFails ==
    /\ pc = "staging"
    /\ Staged < Len(StageOrder)
    /\ tmpdir' = EmptyMap
    /\ run' = [run EXCEPT !.status = "FAILED"]
    /\ pc' = "failed_staging"
    /\ UNCHANGED <<artifacts, store, load_result, reeval_result, diff_result>>
    /\ UNCHANGED search_vars

\* mlflow.log_artifacts(dp) copies the files of dp into the run's artifact
\* location one file at a time; when the last is copied the call returns and
\* the TemporaryDirectory is removed.
LogArtifactsCopy ==
    /\ pc = "uploading"
    /\ \E f \in DOMAIN tmpdir \ DOMAIN store :
          /\ store' = (f :> tmpdir[f]) @@ store
          /\ IF DOMAIN tmpdir \ DOMAIN store = {f}
             THEN pc' = "uploaded" /\ tmpdir' = EmptyMap
             ELSE pc' = "uploading" /\ tmpdir' = tmpdir
    /\ UNCHANGED <<run, artifacts, load_result, reeval_result, diff_result>>
    /\ UNCHANGED search_vars

\* mlflow.log_params(vars(artifacts["params"])), then the start_run block
\* ends the run as FINISHED.
LogParams ==
    /\ pc = "uploaded"
    /\ run' = [run EXCEPT !.params = artifacts.params, !.status = "FINISHED"]
    /\ pc' = "done"
    /\ UNCHANGED <<artifacts, tmpdir, store, load_result, reeval_result, diff_result>>
    /\ UNCHANGED search_vars

\* The process is killed while it stages or logs the artifacts: nothing of it
\* runs any more, the run stays RUNNING and the files stay where they are.
Interrupt ==
    /\ pc \in {"staging", "uploading"}
    /\ pc' = IF pc = "staging" THEN "interrupted_staging" ELSE "interrupted_upload"
    /\ UNCHANGED <<run, artifacts, tmpdir, store, load_result, reeval_result, diff_result>>
    /\ UNCHANGED search_vars

(***************************************************************************)
(* Readers and the environment of a run                                    *)
(***************************************************************************)
\* A reader (predict_tags, params, performance) calls load_artifacts(run_id).
LoadArtifacts ==
    /\ load_result' = load_artifacts(run, store)
    /\ UNCHANGED <<pc, run, artifacts, tmpdir, store, reeval_result, diff_result>>
    /\ UNCHANGED search_vars

\* A file of a finished run is deleted from its artifact location.
DeleteFile ==
    /\ pc = "done"
    /\ \E f \in DOMAIN store : store' = [g \in DOMAIN store \ {f} |-> store[g]]
    /\ UNCHANGED <<pc, run, artifacts, tmpdir, load_result, reeval_result, diff_result>>
    /\ UNCHANGED search_vars

\* A file of a finished run is overwritten with bytes no loader can parse.
CorruptFile ==
    /\ pc = "done"
    /\ \E f \in DOMAIN store :
          /\ store[f].kind # "garbage"
          /\ store' = [store EXCEPT ![f] = Garbage]
    /\ UNCHANGED <<pc, run, artifacts, tmpdir, load_result, reeval_result, diff_result>>
    /\ UNCHANGED search_vars

\* behavioral_reevaluation calls load_artifacts(model_dir=model_dir), a keyword
\* load_artifacts(run_id, device) does not take: the call raises TypeError
\* before anything is evaluated, logged or written.
behavioral_reevaluation ==
    /\ pc = "done"
    /\ reeval_result.status = "none"
    /\ reeval_result' = [status |-> "error", err |-> "TypeError"]
    /\ UNCHANGED <<pc, run, artifacts, tmpdir, store, load_result, diff_result>>
    /\ UNCHANGED search_vars

\* The release tags diff can be asked to compare, and the newest of them.
Tags == {"workspace", "v1"}
LatestTag == "v1"

\* diff resolves an empty tag_b to the newest tag, then calls
\* params(author=..., repo=..., tag=..., verbose=False), keywords params(run_id)
\* does not take: the call raises TypeError before any diff is computed.
diff ==
    /\ diff_result.status = "none"
    /\ \E tag_a \in Tags, tag_b \in Tags \cup {""} :
          diff_result' = [status |-> "error", err |-> "TypeError", tag_a |-> tag_a,
                          tag_b |-> IF tag_b = "" THEN LatestTag ELSE tag_b]
    /\ UNCHANGED <<pc, run, artifacts, tmpdir, store, load_result, reeval_result>>
    /\ UNCHANGED search_vars

InitSearchIdle ==
    /\ pc_opt = "off"
    /\ num_trials = 0
    /\ base_params = EmptyMap
    /\ trials = << >>
    /\ selected = 0
    /\ params_file = save_dict(EmptyMap)
    /\ opt_error = ""

Init == InitTrain /\ InitSearchIdle

Next ==
    \/ StartRun
    \/ Train
    \/ TrainFails
    \/ LogMetrics
    \/ StageWrite
    \/ StageWriteFails
    \/ LogArtifactsCopy
    \/ LogParams
    \/ Interrupt
    \/ LoadArtifacts
    \/ DeleteFile
    \/ CorruptFile
    \/ behavioral_reevaluation
    \/ diff

Spec == Init /\ [][Next]_vars

(***************************************************************************)
(* optimize: the optuna study                                              *)
(***************************************************************************)
\* MedianPruner(n_startup_trials=5, n_warmup_steps=5)
n_startup_trials == 5
n_warmup_steps == 5

\* Bounds of the search model: the largest num_trials of a pruning study, the
\* largest num_trials of a merge study, the epochs (reports) of one trial.
MaxTrials == 6
MergeTrials == 3
NumEpochs == 6

\* The intermediate values a trial reports, one per epoch (step s is index
\* s + 1): low throughout, high throughout, or high through the warm-up and
\* low from the first step after it.
Low == [s \in 1..NumEpochs |-> 2]
High == [s \in 1..NumEpochs |-> 3]
Drop == [s \in 1..NumEpochs |-> IF s <= n_warmup_steps THEN 3 ELSE 2]
Profiles == {Low, High, Drop}

IsComplete(t) == t.state = "COMPLETE"

\* study.get_trials(states=(COMPLETE,))
CompletedTrials(ts) == SelectSeq(ts, IsComplete)

MaxOf(S) == CHOOSE x \in S : \A y \in S : y <= x

\* The k-th smallest element of the sequence vals.
Kth(vals, k) ==
    CHOOSE v \in {vals[i] : i \in 1..Len(vals)} :
        /\ Cardinality({i \in 1..Len(vals) : vals[i] < v}) < k
        /\ k <= Cardinality({i \in 1..Len(vals) : vals[i] <= v})

\* Twice the 50th percentile of vals (numpy interpolates between the two
\* middle elements of an even number of values).
Median2(vals) ==
    LET n == Len(vals)
    IN  IF n % 2 = 1 THEN 2 * Kth(vals, (n + 1) \div 2)
        ELSE Kth(vals, n \div 2) + Kth(vals, n \div 2 + 1)

\* The intermediate values the trials of ts reported at step (index) k.
RECURSIVE ValuesAt(_, _)
ValuesAt(ts, k) ==
    IF ts = << >> THEN << >>
    ELSE IF Len(Head(ts).intermediate) >= k
         THEN <<Head(ts).intermediate[k]>> \o ValuesAt(Tail(ts), k)
         ELSE ValuesAt(Tail(ts), k)

\* A MedianPruner that forgets the warm-up steps.
should_prune_no_warmup(ts, iv) ==
    LET completed == CompletedTrials(ts)
        at == ValuesAt(completed, Len(iv))
    IN  /\ Len(completed) >= n_startup_trials
        /\ at # << >>
        /\ 2 * MaxOf({iv[i] : i \in 1..Len(iv)}) < Median2(at)

\* MedianPruner.prune for a trial that has reported iv so far (its last step
\* is Len(iv) - 1), in a study that maximizes and whose trials are ts.
should_prune(ts, iv) ==
    LET completed == CompletedTrials(ts)
        step == Len(iv) - 1
        at == ValuesAt(completed, Len(iv))
    IN  IF Len(completed) = 0 \/ Len(completed) < n_startup_trials THEN FALSE
        ELSE IF step < n_warmup_steps THEN FALSE
        ELSE IF at = << >> THEN FALSE
        ELSE 2 * MaxOf({iv[i] : i \in 1..Len(iv)}) < Median2(at)

\* The objective reports prof step by step and stops at the first report at
\* which the pruner says to prune: the index of that report, 0 if none.
PrunedAt(ts, prof) ==
    IF \E k \in 1..Len(prof) : should_prune(ts, SubSeq(prof, 1, k))
    THEN CHOOSE k \in 1..Len(prof) :
            /\ should_prune(ts, SubSeq(prof, 1, k))
            /\ \A j \in 1..(k - 1) : ~should_prune(ts, SubSeq(prof, 1, j))
    ELSE 0

\* One trial of study.optimize: the objective runs with the suggested
\* hyperparameters tp; it either returns fin, having set the user attribute
\* threshold, or is pruned, and then the trial's value is its last report.
RunTrial(tp, thr, prof, fin) ==
    /\ pc_opt = "optimizing"
    /\ Len(trials) < num_trials
    /\ LET k == PrunedAt(trials, prof)
           t == IF k = 0
                THEN [number |-> Len(trials), state |-> "COMPLETE", value |-> fin,
                      params |-> tp, intermediate |-> prof,
                      user_attrs |-> ("threshold" :> thr)]
                ELSE [number |-> Len(trials), state |-> "PRUNED", value |-> prof[k],
                      params |-> tp, intermediate |-> SubSeq(prof, 1, k),
                      user_attrs |-> EmptyMap]
       IN  trials' = Append(trials, t)
    /\ UNCHANGED <<pc_opt, num_trials, base_params, selected, params_file, opt_error>>
    /\ UNCHANGED train_vars

\* The objective raises: the trial is stored as FAIL and, study.optimize
\* being called without catch, the exception leaves study.optimize and the
\* command.
ObjectiveRaises ==
    /\ pc_opt = "optimizing"
    /\ Len(trials) < num_trials
    /\ trials' = Append(trials, [number |-> Len(trials), state |-> "FAIL", value |-> 0,
                                 params |-> EmptyMap, intermediate |-> << >>,
                                 user_attrs |-> EmptyMap])
    /\ pc_opt' = "error"
    /\ opt_error' = "ObjectiveError"
    /\ UNCHANGED <<num_trials, base_params, selected, params_file>>
    /\ UNCHANGED train_vars

\* A study that keeps the latest of the trials that share the best value.
RECURSIVE BestUpToLatest(_, _)
BestUpToLatest(ts, n) ==
    IF n = 0 THEN 0
    ELSE LET b == BestUpToLatest(ts, n - 1)
         IN  IF ts[n].state # "COMPLETE" THEN b
             ELSE IF b = 0 THEN n
             ELSE IF ts[b].value <= ts[n].value THEN n ELSE b

\* The study's best trial after its first n trials (an index of ts, 0 if no
\* trial completed): a COMPLETE trial replaces the best one only with a
\* strictly greater value.
RECURSIVE BestUpTo(_, _)
BestUpTo(ts, n) ==
    IF n = 0 THEN 0
    ELSE LET b == BestUpTo(ts, n - 1)
         IN  IF ts[n].state # "COMPLETE" THEN b
             ELSE IF b = 0 THEN n
             ELSE IF ts[b].value < ts[n].value THEN n ELSE b

\* study.best_trial
best_trial(ts) == BestUpTo(ts, Len(ts))

\* A merge in which the base values win over the trial's.
merge_params_base_wins(base, t) ==
    ("threshold" :> t.user_attrs["threshold"]) @@ base @@ t.params

\* {**params.__dict__, **study.best_trial.params}, then params["threshold"]
merge_params(base, t) ==
    ("threshold" :> t.user_attrs["threshold"]) @@ t.params @@ base

\* After the study: the best trial is read, merged over the base params and
\* saved to params_fp.  study.best_trial raises ValueError when no trial
\* completed.
SaveBest ==
    /\ pc_opt = "optimizing"
    /\ Len(trials) = num_trials
    /\ IF best_trial(trials) = 0
       THEN /\ pc_opt' = "error"
            /\ opt_error' = "ValueError"
            /\ UNCHANGED <<selected, params_file>>
       ELSE /\ selected' = trials[best_trial(trials)].number
            /\ params_file' = save_dict(merge_params(base_params, trials[best_trial(trials)]))
            /\ pc_opt' = "done"
            /\ UNCHANGED opt_error
    /\ UNCHANGED <<num_trials, base_params, trials>>
    /\ UNCHANGED train_vars

\* The inputs of a pruning study: the final values an objective returns; the
\* hyperparameters and the threshold are the same for every trial.
Finals == {0, 1}
FixedTrialParams == ("lr" :> 3)
SearchThresholds == {4}
SearchBase == ("lr" :> 1 @@ "num_epochs" :> 6)

InitSearch ==
    /\ InitTrain
    /\ pc_opt = "optimizing"
    /\ num_trials \in 1..MaxTrials
    /\ base_params = SearchBase
    /\ trials = << >>
    /\ selected = -1
    /\ params_file = save_dict(base_params)
    /\ opt_error = ""

SearchTrial == \E thr \in SearchThresholds, prof \in Profiles, fin \in Finals :
                   RunTrial(FixedTrialParams, thr, prof, fin)

NextSearch ==
    \/ SearchTrial
    \/ ObjectiveRaises
    \/ SaveBest

SpecSearch == InitSearch /\ [][NextSearch]_vars

\* The inputs of a merge study: base params (with and without a threshold of
\* an earlier optimize), suggested hyperparameters, thresholds, final values.
BaseParamSets == { ("lr" :> 1 @@ "num_epochs" :> 6),
                   ("lr" :> 1 @@ "num_epochs" :> 6 @@ "threshold" :> 2) }
TrialParamSets == { ("lr" :> 3), ("lr" :> 1 @@ "dropout" :> 7) }
Thresholds == {4, 5}
MergeFinals == {3, 5, 9}

InitMerge ==
    /\ InitTrain
    /\ pc_opt = "optimizing"
    /\ num_trials \in 1..MergeTrials
    /\ base_params \in BaseParamSets
    /\ trials = << >>
    /\ selected = -1
    /\ params_file = save_dict(base_params)
    /\ opt_error = ""

MergeTrial == \E tp \in TrialParamSets, thr \in Thresholds, fin \in MergeFinals :
                  RunTrial(tp, thr, High, fin)

NextMerge ==
    \/ MergeTrial
    \/ ObjectiveRaises
    \/ SaveBest

SpecMerge == InitMerge /\ [][NextMerge]_vars

(***************************************************************************)
(* The structural diff the diff command is meant to return.  Mappings are  *)
(* flat: a nested mapping is given by the dotted paths of its leaves.      *)
(***************************************************************************)
dict_diff(d_a, d_b) ==
    [added |-> [k \in DOMAIN d_b \ DOMAIN d_a |-> d_b[k]],
     removed |-> [k \in DOMAIN d_a \ DOMAIN d_b |-> d_a[k]],
     changed |-> [k \in {x \in DOMAIN d_a \cap DOMAIN d_b : d_a[x] # d_b[x]} |->
                     [a |-> d_a[k], b |-> d_b[k]]]]

\* The params and the performance of each release tag.
TagParams == ("workspace" :> ("lr" :> 1)) @@ ("v1" :> ("lr" :> 2 @@ "batch" :> 32))
TagPerformance == ("workspace" :> ("overall.f1" :> 6 @@ "behavioral.score" :> 9))
                  @@ ("v1" :> ("overall.f1" :> 8 @@ "slices.overall.f1" :> 7))

(***************************************************************************)
(* Claims about train_model, load_artifacts, behavioral_reevaluation and   *)
(* diff, checked under Spec.                                               *)
(***************************************************************************)
\* The run id resolves to an artifact location: mlflow.get_run(run_id) succeeds.
Resolvable == run.status # "NONE"

\* The positions of a training run up to the end of the command.
TrainingPcs == {"started", "trained", "staging", "uploading", "uploaded",
                "failed_train", "failed_staging",
                "interrupted_staging", "interrupted_upload"}

\* C1: in every state of a training run, a reader that resolves the run id
\* sees at the run's artifact location either all five components or none.
C1_AllOrNothing ==
    (Resolvable /\ pc \in TrainingPcs) => Cardinality(DOMAIN store) \in {0, 5}

\* The staging was aborted: a write into dp failed, or the process was
\* interrupted before the last write completed.
StagingAborted == pc \in {"failed_staging", "interrupted_staging"}

\* C2 as stated: after an aborted staging no component is at the run's
\* artifact location, the run is not finished, and the run id resolves to no
\* artifact location.
C2_Original ==
    StagingAborted =>
        /\ DOMAIN store = {}
        /\ run.status # "FINISHED"
        /\ ~Resolvable

\* C2 as amended: after an aborted staging no component is at the run's
\* artifact location, the run is not finished, and no load of the run id
\* returns a bundle; the run id itself still resolves.
C2_Amended ==
    StagingAborted =>
        /\ DOMAIN store = {}
        /\ run.status \in {"FAILED", "RUNNING"}
        /\ load_artifacts(run, store).status = "error"
        /\ load_result.status # "ok"
        /\ Resolvable

C2_Witness ==
    /\ pc = "failed_staging"
    /\ load_result.status = "error"
    /\ load_result.component = "params.json"

\* Every file of the artifact location is there and none was overwritten.
Intact(st) == \A f \in FileNames : f \in DOMAIN st /\ st[f].kind # "garbage"

SameBundle(x, b) ==
    /\ x.params = b.params
    /\ x.label_encoder = b.label_encoder
    /\ x.tokenizer = b.tokenizer
    /\ x.model = b.model
    /\ x.performance = b.performance

BrokenRun == pc = "done" /\ FirstBad(store) # 0

C10_OnlyBehavioral ==
    [][reeval_result' # reeval_result =>
          /\ reeval_result'.status = "ok"
          /\ DOMAIN store' = DOMAIN store
          /\ \A f \in DOMAIN store \ {"performance.json"} : store'[f] = store[f]
          /\ "performance.json" \in DOMAIN store =>
                /\ store'["performance.json"].body.overall
                       = store["performance.json"].body.overall
                /\ store'["performance.json"].body.slices
                       = store["performance.json"].body.slices]_vars

DiffSymmetric(d_a, d_b) ==
    /\ dict_diff(d_a, d_b).added = dict_diff(d_b, d_a).removed
    /\ dict_diff(d_a, d_b).removed = dict_diff(d_b, d_a).added
    /\ dict_diff(d_a, d_a).added = EmptyMap
    /\ dict_diff(d_a, d_a).removed = EmptyMap
    /\ dict_diff(d_a, d_a).changed = EmptyMap

\* C7: the diff command returns the params diff and the performance diff of
\* its two tags, and both obey the symmetry of the structural diff.
C7_DiffSymmetry ==
    [][diff_result' # diff_result =>
          /\ diff_result'.status = "ok"
          /\ DiffSymmetric(TagParams[diff_result'.tag_a], TagParams[diff_result'.tag_b])
          /\ DiffSymmetric(TagPerformance[diff_result'.tag_a],
                           TagPerformance[diff_result'.tag_b])]_vars

(***************************************************************************)
(* Claims about optimize, checked under SpecSearch and SpecMerge.          *)
(***************************************************************************)
Idx == 1..Len(trials)

\* C3 as stated: the selected trial has the greatest value among the trials
\* that did not fail, and is the earliest of those that have it.
C3_Original ==
    pc_opt = "done" =>
        \A j \in Idx :
            trials[j].state # "FAIL" =>
                /\ trials[j].value <= trials[selected + 1].value
                /\ trials[j].value = trials[selected + 1].value => j >= selected + 1

\* C3 as amended: the selected trial is a completed one, has the greatest
\* value among the completed trials, and is the earliest of those that have
\* it; a pruned trial is never selected.
C3_Amended ==
    pc_opt = "done" =>
        /\ selected + 1 \in Idx
        /\ trials[selected + 1].state = "COMPLETE"
        /\ \A j \in Idx :
              trials[j].state = "COMPLETE" =>
                  /\ trials[j].value <= trials[selected + 1].value
                  /\ trials[j].value = trials[selected + 1].value => j >= selected + 1

C3_Witness ==
    /\ pc_opt = "done"
    /\ \E j \in Idx : /\ trials[j].state = "PRUNED"
                      /\ trials[j].value > trials[selected + 1].value
    /\ \E j \in Idx : /\ j > selected + 1
                      /\ trials[j].state = "COMPLETE"
                      /\ trials[j].value = trials[selected + 1].value
    /\ \E j \in Idx : /\ trials[j].state = "COMPLETE"
                      /\ trials[j].value < trials[selected + 1].value

\* C4: a trial whose objective raised does not end the search while trials
\* remain, and the search fails only when every trial failed.
C4_FailedTrialTolerated ==
    /\ ((\E j \in Idx : trials[j].state = "FAIL") /\ Len(trials) < num_trials)
           => pc_opt = "optimizing"
    /\ pc_opt = "error" => \A j \in Idx : trials[j].state = "FAIL"

\* The trials submitted before trial i.
Before(i) == SubSeq(trials, 1, i - 1)

\* Trial i may be pruned at its report k: the startup trials have completed
\* and step k - 1 is past the warm-up.
Eligible(i, k) ==
    /\ Len(CompletedTrials(Before(i))) >= n_startup_trials
    /\ k - 1 >= n_warmup_steps
    /\ ValuesAt(CompletedTrials(Before(i)), k) # << >>

\* C5 as stated: no trial is pruned before the startup trials or inside the
\* warm-up, and a trial whose value reported at an eligible step is below
\* the median of the others at that step ends pruned, at that step.
C5_Original ==
    \A i \in Idx :
        /\ trials[i].state = "PRUNED" =>
              /\ Len(CompletedTrials(Before(i))) >= n_startup_trials
              /\ Len(trials[i].intermediate) - 1 >= n_warmup_steps
        /\ \A k \in 1..Len(trials[i].intermediate) :
              (/\ Eligible(i, k)
               /\ 2 * trials[i].intermediate[k]
                      < Median2(ValuesAt(CompletedTrials(Before(i)), k)))
              => trials[i].state = "PRUNED" /\ Len(trials[i].intermediate) = k

\* C5 as amended: no trial is pruned before the startup trials or inside the
\* warm-up, and a trial whose best value reported so far is, at an eligible
\* step, below the median of the completed trials at that step ends pruned,
\* at that step; no other trial is pruned.
C5_Amended ==
    \A i \in Idx :
        /\ trials[i].state = "PRUNED" =>
              /\ Len(CompletedTrials(Before(i))) >= n_startup_trials
              /\ Len(trials[i].intermediate) - 1 >= n_warmup_steps
              /\ 2 * MaxOf({trials[i].intermediate[k] : k \in 1..Len(trials[i].intermediate)})
                     < Median2(ValuesAt(CompletedTrials(Before(i)), Len(trials[i].intermediate)))
        /\ \A k \in 1..Len(trials[i].intermediate) :
              (/\ Eligible(i, k)
               /\ 2 * MaxOf({trials[i].intermediate[j] : j \in 1..k})
                      < Median2(ValuesAt(CompletedTrials(Before(i)), k)))
              => trials[i].state = "PRUNED" /\ Len(trials[i].intermediate) = k

C5_Witness ==
    /\ \E i \in Idx :
          /\ trials[i].state = "PRUNED"
          /\ Len(trials[i].intermediate) - 1 = n_warmup_steps
          /\ Len(CompletedTrials(Before(i))) = n_startup_trials
    /\ \E i \in Idx :
          /\ i <= n_startup_trials
          /\ trials[i].state = "COMPLETE"
          /\ trials[i].intermediate = Low

\* C6: the params optimize saves are the base params overridden by the best
\* trial's hyperparameters, with threshold set to the best trial's threshold
\* attribute and every other base key kept; final values 5, 9, 3 select
\* trial 1.
C6_Merge ==
    pc_opt = "done" =>
        LET t == trials[selected + 1]
            saved == params_file.body
        IN  /\ params_file.fmt = "json"
            /\ DOMAIN saved = DOMAIN base_params \cup DOMAIN t.params \cup {"threshold"}
            /\ \A k \in DOMAIN t.params \ {"threshold"} : saved[k] = t.params[k]
            /\ saved["threshold"] = t.user_attrs["threshold"]
            /\ \A k \in DOMAIN base_params \ (DOMAIN t.params \cup {"threshold"}) :
                  saved[k] = base_params[k]
            /\ [i \in Idx |-> trials[i].value] = <<5, 9, 3>> => selected = 1

C6_Witness ==
    /\ pc_opt = "done"
    /\ [i \in Idx |-> trials[i].value] = <<5, 9, 3>>
    /\ selected = 1
    /\ trials[2].params = ("lr" :> 3)
    /\ base_params["lr"] = 1
    /\ "threshold" \in DOMAIN base_params
    /\ params_file.body = ("lr" :> 3 @@ "num_epochs" :> 6 @@ "threshold" :> 5)
====
